---- MODULE Spec2Model ----
(***************************************************************************)
(* ToggleTaskbarAutohide: a model of ToggleTaskbarAutohide.cpp.            *)
(*                                                                         *)
(* The program flips one byte of the StuckRects3 "Settings" registry blob, *)
(* kills and relaunches explorer.exe, and replays the open folder windows  *)
(* and the foreground application.                                         *)
(***************************************************************************)
EXTENDS Integers, Sequences, FiniteSets, TLC

VARIABLES
    \* the registry
    reg,          \* HKCU\...\Explorer: key name -> [access, present, data]
    reg0,         \* the registry as it was when the program started
    toggleLog,    \* one record per call of ToggleTaskbarSetting, oldest first
    \* the program's globals and its main thread
    pc,                      \* where the main thread is
    cmdline,                 \* [tray, noreopen]: the switches on the command line
    g_trayMode,
    g_hwnd,                  \* TRUE once the message-only window exists
    g_isRestartingExplorer,
    g_watchdogThread,        \* 0 (NULL) or the handle of the thread created last
    watchdogs,               \* the watchdog threads that have not returned: [id, at]
    wdCreated,               \* watchdog threads created so far
    msgQueue,                \* messages posted to g_hwnd, oldest first
    clicks,                  \* clicks on the tray icon so far
    timerArmed,              \* timer 1234 is set
    trayIcon,                \* the icon is registered in the notification area
    tooltip,                 \* g_nid.szTip as last set
    quitPosted,              \* PostQuitMessage has been called
    \* the system around it
    shell,                   \* the taskbar's shell: "up", "down" or "starting"
    procs,                   \* the running processes: set of [pid, exe, openable]
    nextPid,
    windows,                 \* the top-level windows, front to back
    nextHwnd,
    foreground,              \* GetForegroundWindow(): a window handle or 0
    \* locals of ExecuteToggleAction and of the functions it calls
    foregroundApp,           \* ForegroundAppInfo
    explorerWindows,         \* std::vector<ExplorerWindow>
    it,                      \* RestoreExplorerWindows: entries still to replay
    \* what happened, for the claims
    seqNo,                   \* toggle sequences started so far
    steps,                   \* the steps executed: <<sequence number, step>>
    killLog,                 \* KillExplorerProcess's calls, in order, last run
    killSnapshot,            \* the process snapshot its last run walked
    restoreLog               \* RestoreExplorerWindows's iterations, last run

regVars == <<reg, reg0, toggleLog>>

globalVars == <<g_trayMode, g_hwnd, g_isRestartingExplorer, g_watchdogThread>>

threadVars == <<watchdogs, wdCreated>>

uiVars == <<msgQueue, clicks, timerArmed, trayIcon, tooltip, quitPosted>>

sysVars == <<shell, procs, nextPid, windows, nextHwnd, foreground>>

localVars == <<foregroundApp, explorerWindows, it>>

histVars == <<seqNo, steps, killLog, killSnapshot, restoreLog>>

vars == <<reg, reg0, toggleLog, pc, cmdline, g_trayMode, g_hwnd,
          g_isRestartingExplorer, g_watchdogThread, watchdogs, wdCreated,
          msgQueue, clicks, timerArmed, trayIcon, tooltip, quitPosted, shell, procs,
          nextPid,
          windows, nextHwnd, foreground, foregroundApp, explorerWindows, it,
          seqNo, steps, killLog, killSnapshot, restoreLog>>

-----------------------------------------------------------------------------
(* Bounds of the model.                                                    *)

\* Calls of ToggleTaskbarSetting explored in a row (the toggler on its own).
MaxToggles == 2
\* Clicks on the tray icon, left (a toggle sequence each) or right.
MaxClicks == 2
\* Folder windows open when the program starts.
MaxFolders == 3

-----------------------------------------------------------------------------
(* Program constants.                                                      *)

TASKBAR_ALWAYS_VISIBLE == 2
TASKBAR_AUTOHIDE == 3
\* BYTE settings[64]; DWORD settingsSize = sizeof(settings)
SettingsBufferSize == 64
\* settings[0x08]
ModeOffset == 8
\* a BYTE holds 0 .. 255
ByteValues == 256

Bytes == 0 .. (ByteValues - 1)

StuckRects3 == "StuckRects3"
StuckRects2 == "StuckRects2"
NoKey == "none"
SettingsValueName == "Settings"

KeyNames == {StuckRects3, StuckRects2}

-----------------------------------------------------------------------------
(* The registry.  A key is absent, or present with an access the current   *)
(* user has: "readonly" (KEY_READ is granted, KEY_WRITE is not) or "full". *)
(* Its "Settings" value is present or not; data is the stored byte string; *)
(* setFails tells that RegSetValueExW on the key returns an error.         *)

AccessKinds == {"absent", "readonly", "full"}

\* Stored lengths tried: too short to hold the mode byte, just long enough,
\* short, the documented 64 bytes, and longer than the program's buffer.
StoredLengths == {ModeOffset, ModeOffset + 1, 12, SettingsBufferSize, SettingsBufferSize + 1}

\* The bytes around the mode byte: a pattern that differs per position and
\* per key, so that a byte moved, dropped or taken from the other key shows.
Filler(p, seed) == (p * 7 + seed * 101) % ByteValues

Blob(len, mode, seed) ==
    [p \in 1 .. len |-> IF p = ModeOffset + 1 THEN mode ELSE Filler(p, seed)]

KeySeed(k) == IF k = StuckRects3 THEN 3 ELSE 2

\* RegOpenKeyExW(HKEY_CURRENT_USER, path, 0, KEY_READ | KEY_WRITE, &hKey)
RegOpenReadWrite(r, k) == r[k].access = "full"

\* RegOpenKeyExW(HKEY_CURRENT_USER, path, 0, KEY_READ, &hKey)
RegOpenRead(r, k) == r[k].access \in {"readonly", "full"}

\* RegQueryValueExW(hKey, L"Settings", NULL, &type, settings, &settingsSize)
\* with settingsSize = sizeof(settings): ERROR_FILE_NOT_FOUND without the
\* value, ERROR_MORE_DATA when it does not fit the buffer.
RegQueryOk(r, k) ==
    /\ r[k].present
    /\ Len(r[k].data) <= SettingsBufferSize

\* The local buffer after a successful query: the stored bytes, then what
\* the stack held before (garbage), since settings[] is not initialised.
QueryBuffer(r, k, garbage) ==
    [p \in 1 .. SettingsBufferSize |->
        IF p <= Len(r[k].data) THEN r[k].data[p] ELSE garbage]

\* (settings[0x08] == TASKBAR_ALWAYS_VISIBLE) ? TASKBAR_AUTOHIDE : TASKBAR_ALWAYS_VISIBLE
XorToggledMode(b) == IF b = TASKBAR_ALWAYS_VISIBLE THEN TASKBAR_AUTOHIDE
                     ELSE IF b = TASKBAR_AUTOHIDE THEN TASKBAR_ALWAYS_VISIBLE
                     ELSE b
UnknownAsVisible(b) ==
    IF b = TASKBAR_AUTOHIDE THEN TASKBAR_ALWAYS_VISIBLE ELSE TASKBAR_AUTOHIDE
ToggledMode(b) ==
    IF b = TASKBAR_ALWAYS_VISIBLE THEN TASKBAR_AUTOHIDE ELSE TASKBAR_ALWAYS_VISIBLE

\* settings[0x08] = ...
WholeBufferToggled(buf) == [p \in 1 .. SettingsBufferSize |-> ToggledMode(buf[p])]
ToggledBuffer(buf) ==
    [buf EXCEPT ![ModeOffset + 1] = ToggledMode(buf[ModeOffset + 1])]

\* RegSetValueExW(hKey, L"Settings", 0, REG_BINARY, settings, settingsSize):
\* the first settingsSize bytes of the buffer.
FullBufferWritten(buf, size) == buf
WrittenData(buf, size) == SubSeq(buf, 1, size)

\* The key ToggleTaskbarSetting works on: StuckRects3 when it opens for
\* reading and writing, else StuckRects2 when that opens, else none.
ToggleKey(r) ==
    IF RegOpenReadWrite(r, StuckRects3) THEN StuckRects3
    ELSE IF RegOpenReadWrite(r, StuckRects2) THEN StuckRects2
    ELSE NoKey

\* One call of ToggleTaskbarSetting on registry r.  garbage is what the
\* uninitialised part of settings[] holds.  The result: the registry
\* afterwards and the record of the call.
ToggleTaskbarSetting(r, garbage) ==
    LET key == ToggleKey(r)
    IN  IF key = NoKey
        THEN [reg |-> r,
              log |-> [ret |-> FALSE, key |-> NoKey, queried |-> FALSE,
                       readName |-> SettingsValueName, readData |-> <<>>,
                       wrote |-> FALSE, setOk |-> FALSE,
                       writeKey |-> NoKey, writeName |-> SettingsValueName,
                       writeData |-> <<>>, broadcasts |-> 0]]
        ELSE IF ~RegQueryOk(r, key)
        THEN [reg |-> r,
              log |-> [ret |-> FALSE, key |-> key, queried |-> FALSE,
                       readName |-> SettingsValueName, readData |-> <<>>,
                       wrote |-> FALSE, setOk |-> FALSE,
                       writeKey |-> NoKey, writeName |-> SettingsValueName,
                       writeData |-> <<>>, broadcasts |-> 0]]
        ELSE LET size == Len(r[key].data)
                 buf  == ToggledBuffer(QueryBuffer(r, key, garbage))
                 out  == WrittenData(buf, size)
                 setOk == ~r[key].setFails
             IN  [reg |-> IF setOk
                          THEN [r EXCEPT ![key] = [@ EXCEPT !.data = out]]
                          ELSE r,
                  log |-> [ret |-> setOk, key |-> key, queried |-> TRUE,
                           readName |-> SettingsValueName,
                           readData |-> r[key].data,
                           wrote |-> TRUE, setOk |-> setOk,
                           writeKey |-> key, writeName |-> SettingsValueName,
                           writeData |-> out, broadcasts |-> 1]]

\* GetCurrentTaskbarSetting: the mode byte for the tooltip, 0x02 by default.
GetCurrentTaskbarSetting(r, garbage) ==
    LET key == IF RegOpenRead(r, StuckRects3) THEN StuckRects3
               ELSE IF RegOpenRead(r, StuckRects2) THEN StuckRects2
               ELSE NoKey
    IN  IF key = NoKey THEN TASKBAR_ALWAYS_VISIBLE
        ELSE IF ~RegQueryOk(r, key) THEN TASKBAR_ALWAYS_VISIBLE
        ELSE QueryBuffer(r, key, garbage)[ModeOffset + 1]

-----------------------------------------------------------------------------
(* Processes, and what KillExplorerProcess does with them.                 *)

\* GetCurrentProcessId(): the program's own process.
OurPid == 1

ExplorerExe == "explorer.exe"

ExeNames == {ExplorerExe, "EXPLORER.EXE", "app.exe", "ToggleTaskbarAutohide.exe"}

ProcOf(ps, pid) == CHOOSE p \in ps : p.pid = pid

\* The members of a set of numbers, smallest first.
RECURSIVE Ascending(_)
Ascending(S) ==
    IF S = {} THEN <<>>
    ELSE LET m == CHOOSE x \in S : \A y \in S : x <= y
         IN  <<m>> \o Ascending(S \ {m})

\* Process32First / Process32Next: the snapshot's entries, in pid order.
SnapshotOrder(snapshot) == Ascending({ p.pid : p \in snapshot })

\* wcscmp(pEntry.szExeFile, L"explorer.exe") == 0 && pEntry.th32ProcessID != ourProcessId
AnyExplorerIsTarget(p, ourPid) == p.exe = ExplorerExe
IsKillTarget(p, ourPid) == p.exe = ExplorerExe /\ p.pid # ourPid

\* The while loop of KillExplorerProcess over the snapshot: the calls it makes.
\* OpenProcess(PROCESS_TERMINATE, ...) returns NULL for a process the caller
\* may not terminate, and TerminateProcess is then not called.
RECURSIVE TerminateCalls(_, _, _)
TerminateCalls(order, snapshot, ourPid) ==
    IF order = <<>> THEN <<>>
    ELSE LET p == ProcOf(snapshot, Head(order))
             calls == IF ~IsKillTarget(p, ourPid) THEN <<>>
                      ELSE IF p.openable
                      THEN << <<"OpenProcess", p.pid>>, <<"TerminateProcess", p.pid>> >>
                      ELSE << <<"OpenProcess", p.pid>> >>
         IN  calls \o TerminateCalls(Tail(order), snapshot, ourPid)

CallsOf(log, kind) == { log[i][2] : i \in { j \in DOMAIN log : log[j][1] = kind } }

-----------------------------------------------------------------------------
(* Top-level windows.  A window is [hwnd, class, visible, pid, path,       *)
(* resolves, showCmd, rect, title]: path is the folder a folder window     *)
(* shows (empty for a virtual folder), resolves tells whether the shell's  *)
(* automation chain (IShellWindows ... GetCurFolder) yields it.            *)

FolderClass == "CabinetWClass"
AppClass == "Notepad"

SW_SHOWNORMAL == 1
SW_SHOWMINIMIZED == 2
SW_SHOWMAXIMIZED == 3
SW_MAXIMIZE == 3
SW_MINIMIZE == 6

\* What GetWindowPlacement stores in showCmd.
PlacementShowCmds == {SW_SHOWNORMAL, SW_SHOWMINIMIZED, SW_SHOWMAXIMIZED}

\* Paths and titles are strings of these characters.
ToLower(c) ==
    CASE c = "A" -> "a"
      [] c = "B" -> "b"
      [] c = "C" -> "c"
      [] OTHER -> c

LowerCase(str) == [i \in 1 .. Len(str) |-> ToLower(str[i])]

\* _wcsicmp(a, b) == 0
EqualNoCase(a, b) == LowerCase(a) = LowerCase(b)

\* wcsstr(title, wanted) != NULL
Contains(title, wanted) ==
    \E i \in 0 .. Len(title) :
        /\ i + Len(wanted) <= Len(title)
        /\ \A j \in 1 .. Len(wanted) : title[i + j] = wanted[j]

EmptyPath == <<>>

RectOf(h) == [left |-> 10 * h, top |-> 20 * h, right |-> 10 * h + 300, bottom |-> 20 * h + 200]

DefaultRect == [left |-> 0, top |-> 0, right |-> 800, bottom |-> 600]

Hwnds(ws) == { ws[i].hwnd : i \in DOMAIN ws }

IsWindow(ws, h) == h \in Hwnds(ws)

WindowOf(ws, h) == ws[CHOOSE i \in DOMAIN ws : ws[i].hwnd = h]

Without(ws, h) == SelectSeq(ws, LAMBDA w : w.hwnd # h)

\* The first window of ws, front to back, whose handle is in wanted; 0
\* when there is none.
FirstWindow(ws, wanted) ==
    LET hits == { i \in DOMAIN ws : ws[i].hwnd \in wanted }
    IN  IF hits = {} THEN 0
        ELSE ws[CHOOSE i \in hits : \A j \in hits : i <= j].hwnd

\* KillExplorerProcess's EnumWindows: WM_CLOSE to every CabinetWClass window.
RECURSIVE CloseCalls(_)
CloseCalls(ws) ==
    IF ws = <<>> THEN <<>>
    ELSE (IF Head(ws).class = FolderClass
          THEN << <<"WM_CLOSE", Head(ws).hwnd>> >> ELSE <<>>)
         \o CloseCalls(Tail(ws))

\* GetOpenExplorerWindows: the walk from GetTopWindow down, zOrder counted
\* over every window; the entries land in windowsByZOrder only when the
\* folder's item id list was obtained.
RECURSIVE WindowsByZOrder(_, _, _)
WindowsByZOrder(ws, zOrder, fg) ==
    IF ws = <<>> THEN {}
    ELSE LET w == Head(ws)
             rest == WindowsByZOrder(Tail(ws), zOrder + 1, fg)
         IN  IF w.visible /\ w.class = FolderClass /\ w.resolves
             THEN { [path |-> w.path, position |-> w.rect, showCmd |-> w.showCmd,
                     hwnd |-> w.hwnd,
                     focusedHwnd |-> IF w.hwnd = fg THEN w.hwnd ELSE 0,
                     zOrder |-> zOrder] } \cup rest
             ELSE rest

\* for (const auto& pair : windowsByZOrder) windows.push_back(pair.second)
DescendingZOrder(byZ) ==
    LET keys == Ascending({ e.zOrder : e \in byZ })
        n    == Len(keys)
    IN  [i \in 1 .. n |-> CHOOSE e \in byZ : e.zOrder = keys[n + 1 - i]]
VectorOf(byZ) ==
    LET keys == Ascending({ e.zOrder : e \in byZ })
    IN  [i \in 1 .. Len(keys) |-> CHOOSE e \in byZ : e.zOrder = keys[i]]

GetOpenExplorerWindows(ws, fg) == VectorOf(WindowsByZOrder(ws, 0, fg))

\* RestoreExplorerWindows walks the vector from rbegin to rend: the entries
\* in the order they are replayed.
ForwardOrder(v) == v
ReplayOrder(v) == [i \in 1 .. Len(v) |-> v[Len(v) + 1 - i]]

\* The EnumWindows search after a reopen request: the first visible
\* CabinetWClass window whose resolved path equals the target, case ignored.
FindByPath(ws, target) ==
    FirstWindow(ws, { ws[i].hwnd : i \in { j \in DOMAIN ws :
                                            /\ ws[j].class = FolderClass
                                            /\ ws[j].visible
                                            /\ ws[j].resolves
                                            /\ EqualNoCase(ws[j].path, target) } })

ToFront(ws, h) == <<WindowOf(ws, h)>> \o Without(ws, h)

ToBack(ws, h) == Without(ws, h) \o <<WindowOf(ws, h)>>

Update(ws, h, w) == [i \in DOMAIN ws |-> IF ws[i].hwnd = h THEN w ELSE ws[i]]

\* MoveWindow(newHwnd, left, top, right - left, bottom - top, TRUE)
MoveWindow(w, x, y, width, height) ==
    [w EXCEPT !.rect = [left |-> x, top |-> y, right |-> x + width, bottom |-> y + height]]

\* ++it: the entries still to replay after one whose search gave newHwnd.
AbortOnMissing(iter, newHwnd) == IF newHwnd = 0 THEN <<>> ELSE Tail(iter)
Advance(iter, newHwnd) == Tail(iter)

\* HWND insertAfter = HWND_TOP; if (showCmd == SW_MINIMIZE) insertAfter = HWND_BOTTOM
InsertAfter(e) == IF e.showCmd = SW_MINIMIZE THEN "HWND_BOTTOM" ELSE "HWND_TOP"

\* if (newHwnd) { ShowWindow(SW_NORMAL); MoveWindow; ShowWindow(SW_MAXIMIZE or
\* SW_MINIMIZE); SetWindowPos(insertAfter) }: the windows afterwards.
ApplyPlacement(ws, h, e) ==
    LET shown == [WindowOf(ws, h) EXCEPT !.visible = TRUE, !.showCmd = SW_SHOWNORMAL]
        moved == MoveWindow(shown, e.position.left, e.position.top,
                            e.position.right - e.position.left,
                            e.position.bottom - e.position.top)
        final == IF e.showCmd = SW_MAXIMIZE
                 THEN [moved EXCEPT !.showCmd = SW_SHOWMAXIMIZED]
                 ELSE IF e.showCmd = SW_MINIMIZE
                 THEN [moved EXCEPT !.showCmd = SW_SHOWMINIMIZED]
                 ELSE moved
        placed == Update(ws, h, final)
    IN  IF InsertAfter(e) = "HWND_BOTTOM" THEN ToBack(placed, h) ELSE ToFront(placed, h)

-----------------------------------------------------------------------------
(* The tray icon.                                                          *)

\* #define TRAY_MODE true
TRAY_MODE == TRUE

\* The uninitialised stack bytes of settings[], as tried.
GarbageBytes == {0, TASKBAR_ALWAYS_VISIBLE, 204}

\* What GetCurrentTaskbarSetting can return on registry r.
CurrentSettings(r) == { GetCurrentTaskbarSetting(r, g) : g \in GarbageBytes }

\* wcscpy_s(g_nid.szTip, ...) in SetupTrayIcon and UpdateTrayIconTooltip
TipFor(setting) ==
    IF setting = TASKBAR_AUTOHIDE THEN "Show the taskbar automatically"
    ELSE "Hide the taskbar automatically"

\* Shell_NotifyIconW(NIM_ADD, &g_nid): takes effect when the notification
\* area exists.
AfterNimAdd(registered, sh) == registered \/ sh = "up"

-----------------------------------------------------------------------------
(* The foreground application.                                             *)

NoApp == [hwnd |-> 0, processId |-> 0, executablePath |-> "", windowTitle |-> <<>>,
          showCmd |-> 0]

\* GetForegroundAppInfo: the window GetForegroundWindow() returns, its
\* process id, the executable's path when the process can be opened, its
\* title and its placement.
GetForegroundAppInfo(ws, fg, ps) ==
    IF fg = 0 THEN NoApp
    ELSE LET w == WindowOf(ws, fg)
             owner == ProcOf(ps, w.pid)
         IN  [hwnd |-> fg, processId |-> w.pid,
              executablePath |-> IF owner.openable THEN owner.exe ELSE "",
              windowTitle |-> w.title, showCmd |-> w.showCmd]

\* The test of RestoreForegroundApp's EnumWindows callback.
ExactTitleOnly(title, wanted) == title = wanted
TitleMatches(title, wanted) ==
    \/ title = wanted
    \/ (Contains(title, wanted) /\ Len(wanted) > 0)

\* The window RestoreForegroundApp focuses: the recorded one while it is
\* still a window, else the first visible window of the recorded process
\* whose title matches; 0 when there is none.
FocusTarget(ws, app) ==
    IF app.hwnd # 0 /\ IsWindow(ws, app.hwnd) THEN app.hwnd
    ELSE FirstWindow(ws, { ws[i].hwnd : i \in { j \in DOMAIN ws :
                                                 /\ ws[j].visible
                                                 /\ ws[j].pid = app.processId
                                                 /\ TitleMatches(ws[j].title, app.windowTitle) } })

\* ShowWindow(SW_SHOWMAXIMIZED / SW_RESTORE / SW_NORMAL) by the recorded
\* showCmd, then SetForegroundWindow: the windows afterwards.
FocusWindow(ws, h, app) ==
    LET w == WindowOf(ws, h)
        shown == [w EXCEPT !.visible = TRUE,
                           !.showCmd = IF app.showCmd = SW_SHOWMAXIMIZED
                                       THEN SW_SHOWMAXIMIZED ELSE SW_SHOWNORMAL]
    IN  ToFront(Update(ws, h, shown), h)

\* The window the system makes foreground when the old one is gone.
NextForeground(ws, fg) ==
    IF fg # 0 /\ IsWindow(ws, fg) THEN fg
    ELSE FirstWindow(ws, { ws[i].hwnd : i \in { j \in DOMAIN ws :
                                                 ws[j].visible /\ ws[j].showCmd # SW_SHOWMINIMIZED } })

-----------------------------------------------------------------------------
(* The program: wWinMain, the message loop and WndProc.                    *)

\* bool shouldReopenExplorer = !HasCommandLineOption(L"--noreopenexplorer");
shouldReopenExplorer == ~cmdline.noreopen

\* The calls of ExecuteToggleAction's body, top to bottom.
KillFirstOrder ==
    <<"eta_KillExplorerProcess", "eta_GetForegroundAppInfo", "eta_GetOpenExplorerWindows",
      "eta_ToggleTaskbarSetting", "eta_SetRestarting", "eta_CreateWatchdog",
      "eta_StartExplorerProcess", "eta_RestoreExplorerWindows",
      "eta_RestoreForegroundApp", "eta_TrayTail">>
CallOrder ==
    <<"eta_GetForegroundAppInfo", "eta_GetOpenExplorerWindows", "eta_ToggleTaskbarSetting",
      "eta_SetRestarting", "eta_CreateWatchdog", "eta_KillExplorerProcess",
      "eta_StartExplorerProcess", "eta_RestoreExplorerWindows",
      "eta_RestoreForegroundApp", "eta_TrayTail">>

\* The two calls under if (shouldReopenExplorer).
Guarded(call) == call \in {"eta_GetOpenExplorerWindows", "eta_RestoreExplorerWindows"}

\* The first call of the body, and the call made after `call`; "return"
\* after the last one.
FirstCall == CallOrder[1]

After(call) ==
    LET at    == CHOOSE i \in DOMAIN CallOrder : CallOrder[i] = call
        later == { j \in DOMAIN CallOrder :
                     /\ j > at
                     /\ (Guarded(CallOrder[j]) => shouldReopenExplorer) }
    IN  IF later = {} THEN "return"
        ELSE CallOrder[CHOOSE j \in later : \A k \in later : j <= k]

Running == pc \notin {"exited", "killed"}

Step(name) == steps' = Append(steps, <<seqNo, name>>)

\* SetupTrayIcon(hwnd)
SetupTrayIcon(registered) ==
    /\ \E setting \in CurrentSettings(reg) : tooltip' = TipFor(setting)
    /\ trayIcon' = AfterNimAdd(registered, shell)

wWinMain ==
    /\ pc = "wWinMain"
    /\ \E coInitialized \in BOOLEAN, created \in BOOLEAN :
         LET tray == cmdline.tray \/ TRAY_MODE
         IN  IF ~coInitialized
             THEN /\ pc' = "exited"
                  /\ UNCHANGED <<globalVars, trayIcon, tooltip, seqNo>>
             ELSE IF ~tray
             THEN /\ pc' = FirstCall
                  /\ g_trayMode' = tray
                  /\ seqNo' = seqNo + 1
                  /\ UNCHANGED <<g_hwnd, g_isRestartingExplorer, g_watchdogThread,
                                 trayIcon, tooltip>>
             ELSE IF ~created
             THEN /\ pc' = "exited"
                  /\ g_trayMode' = tray
                  /\ UNCHANGED <<g_hwnd, g_isRestartingExplorer, g_watchdogThread,
                                 trayIcon, tooltip, seqNo>>
             ELSE /\ pc' = "GetMessage"
                  /\ g_trayMode' = tray
                  /\ g_hwnd' = TRUE
                  /\ SetupTrayIcon(trayIcon)
                  /\ UNCHANGED <<g_isRestartingExplorer, g_watchdogThread, seqNo>>
    /\ UNCHANGED <<regVars, cmdline, threadVars, msgQueue, clicks, timerArmed,
                   quitPosted, sysVars, localVars, steps, killLog, killSnapshot,
                   restoreLog>>

\* if (message == WM_TASKBARCREATED && g_trayMode) { SetupTrayIcon(hwnd); return 0; }
WndProc_TaskbarCreated ==
    /\ pc = "GetMessage"
    /\ msgQueue # <<>> /\ Head(msgQueue) = "WM_TASKBARCREATED"
    /\ msgQueue' = Tail(msgQueue)
    /\ IF g_trayMode THEN SetupTrayIcon(trayIcon) ELSE UNCHANGED <<trayIcon, tooltip>>
    /\ UNCHANGED <<regVars, pc, cmdline, globalVars, threadVars, clicks, timerArmed,
                   quitPosted, sysVars, localVars, histVars>>

\* case WM_TIMER: if (wParam == 1234) { KillTimer; if (g_trayMode) {
\* RemoveTrayIcon(); SetupTrayIcon(hwnd); g_isRestartingExplorer = false; } }
\* The system delivers WM_TIMER when the queue holds nothing else.
WndProc_Timer ==
    /\ pc = "GetMessage"
    /\ msgQueue = <<>>
    /\ ~quitPosted
    /\ timerArmed
    /\ timerArmed' = FALSE
    /\ IF g_trayMode
       THEN /\ SetupTrayIcon(FALSE)
            /\ g_isRestartingExplorer' = FALSE
       ELSE UNCHANGED <<trayIcon, tooltip, g_isRestartingExplorer>>
    /\ UNCHANGED <<regVars, pc, cmdline, g_trayMode, g_hwnd, g_watchdogThread,
                   threadVars, msgQueue, clicks, quitPosted, sysVars, localVars,
                   histVars>>

\* case WM_TRAYICON: if (lParam == WM_LBUTTONUP) { ExecuteToggleAction(); return 0; }
WndProc_TrayLeftClick ==
    /\ pc = "GetMessage"
    /\ msgQueue # <<>> /\ Head(msgQueue) = "WM_LBUTTONUP"
    /\ msgQueue' = Tail(msgQueue)
    /\ pc' = FirstCall
    /\ seqNo' = seqNo + 1
    /\ UNCHANGED <<regVars, cmdline, globalVars, threadVars, clicks, timerArmed,
                   trayIcon, tooltip, quitPosted, sysVars, localVars, steps, killLog,
                   killSnapshot, restoreLog>>

\* else if (lParam == WM_RBUTTONUP): the popup menu; the user picks
\* "Quit application" (WM_COMMAND, ID_TRAY_EXIT) or dismisses the menu.
WndProc_TrayRightClick ==
    /\ pc = "GetMessage"
    /\ msgQueue # <<>> /\ Head(msgQueue) = "WM_RBUTTONUP"
    /\ \E quit \in BOOLEAN :
         msgQueue' = IF quit THEN Append(Tail(msgQueue), "ID_TRAY_EXIT")
                     ELSE Tail(msgQueue)
    /\ UNCHANGED <<regVars, pc, cmdline, globalVars, threadVars, clicks, timerArmed,
                   trayIcon, tooltip, quitPosted, sysVars, localVars, histVars>>

\* case WM_COMMAND: if (LOWORD(wParam) == ID_TRAY_EXIT) PostQuitMessage(0);
WndProc_CommandExit ==
    /\ pc = "GetMessage"
    /\ msgQueue # <<>> /\ Head(msgQueue) = "ID_TRAY_EXIT"
    /\ msgQueue' = Tail(msgQueue)
    /\ quitPosted' = TRUE
    /\ UNCHANGED <<regVars, pc, cmdline, globalVars, threadVars, clicks, timerArmed,
                   trayIcon, tooltip, sysVars, localVars, histVars>>

\* GetMessage returns 0 for WM_QUIT, which the system hands out once no
\* posted message is left: RemoveTrayIcon(); CoUninitialize(); return.
\* The process ends, and its threads with it.
MessageLoopQuit ==
    /\ pc = "GetMessage"
    /\ msgQueue = <<>>
    /\ quitPosted
    /\ pc' = "exited"
    /\ trayIcon' = FALSE
    /\ watchdogs' = <<>>
    /\ timerArmed' = FALSE
    /\ UNCHANGED <<regVars, cmdline, globalVars, wdCreated, msgQueue, clicks,
                   tooltip, quitPosted, sysVars, localVars, histVars>>

-----------------------------------------------------------------------------
(* ExecuteToggleAction, one action per call it makes.                      *)

\* ForegroundAppInfo foregroundApp = GetForegroundAppInfo();
\* std::vector<ExplorerWindow> explorerWindows;
ETA_GetForegroundAppInfo ==
    /\ pc = "eta_GetForegroundAppInfo"
    /\ foregroundApp' = GetForegroundAppInfo(windows, foreground, procs)
    /\ Step("snapshot foreground")
    /\ explorerWindows' = <<>>
    /\ pc' = After("eta_GetForegroundAppInfo")
    /\ UNCHANGED <<regVars, cmdline, globalVars, threadVars, uiVars, sysVars, it,
                   seqNo, killLog, killSnapshot, restoreLog>>

\* if (shouldReopenExplorer) explorerWindows = GetOpenExplorerWindows();
ETA_GetOpenExplorerWindows ==
    /\ pc = "eta_GetOpenExplorerWindows"
    /\ explorerWindows' = GetOpenExplorerWindows(windows, foreground)
    /\ Step("snapshot windows")
    /\ pc' = After("eta_GetOpenExplorerWindows")
    /\ UNCHANGED <<regVars, cmdline, globalVars, threadVars, uiVars, sysVars,
                   foregroundApp, it, seqNo, killLog, killSnapshot, restoreLog>>

\* The bytes that matter of the uninitialised buffer: none when the stored
\* value covers the mode byte.
GarbageFor(r) ==
    IF ToggleKey(r) # NoKey /\ RegQueryOk(r, ToggleKey(r))
       /\ Len(r[ToggleKey(r)].data) <= ModeOffset
    THEN GarbageBytes ELSE {0}

\* ToggleTaskbarSetting();  -- the result is not looked at
ETA_ToggleTaskbarSetting ==
    /\ pc = "eta_ToggleTaskbarSetting"
    /\ \E garbage \in GarbageFor(reg) :
         LET t == ToggleTaskbarSetting(reg, garbage)
         IN  /\ reg' = t.reg
             /\ toggleLog' = Append(toggleLog, t.log)
    /\ Step("toggle")
    /\ pc' = After("eta_ToggleTaskbarSetting")
    /\ UNCHANGED <<reg0, cmdline, globalVars, threadVars, uiVars, sysVars, localVars,
                   seqNo, killLog, killSnapshot, restoreLog>>

\* g_isRestartingExplorer = true;
ETA_SetRestarting ==
    /\ pc = "eta_SetRestarting"
    /\ g_isRestartingExplorer' = TRUE
    /\ pc' = After("eta_SetRestarting")
    /\ UNCHANGED <<regVars, cmdline, g_trayMode, g_hwnd, g_watchdogThread, threadVars,
                   uiVars, sysVars, localVars, histVars>>

\* if (g_trayMode && g_watchdogThread == NULL)
\*     g_watchdogThread = CreateThread(NULL, 0, WatchdogThreadProc, NULL, 0, NULL);
AlwaysCreateWatchdog(trayMode, handle) == trayMode
MayCreateWatchdog(trayMode, handle) == trayMode /\ handle = 0

ETA_CreateWatchdog ==
    /\ pc = "eta_CreateWatchdog"
    /\ IF MayCreateWatchdog(g_trayMode, g_watchdogThread)
       THEN /\ wdCreated' = wdCreated + 1
            /\ watchdogs' = Append(watchdogs, [id |-> wdCreated + 1, at |-> "Sleep"])
            /\ g_watchdogThread' = wdCreated + 1
       ELSE UNCHANGED <<wdCreated, watchdogs, g_watchdogThread>>
    /\ pc' = After("eta_CreateWatchdog")
    /\ UNCHANGED <<regVars, cmdline, g_trayMode, g_hwnd, g_isRestartingExplorer,
                   uiVars, sysVars, localVars, histVars>>

\* KillExplorerProcess(), first half: EnumWindows posting WM_CLOSE to every
\* CabinetWClass window; Sleep(150).
ETA_KillPostClose ==
    /\ pc = "eta_KillExplorerProcess"
    /\ killLog' = CloseCalls(windows)
    /\ killSnapshot' = {}
    /\ Step("terminate shell")
    /\ pc' = "eta_KillTerminate"
    /\ UNCHANGED <<regVars, cmdline, globalVars, threadVars, uiVars, sysVars,
                   localVars, seqNo, restoreLog>>

\* KillExplorerProcess(), second half: the process snapshot and the loop
\* that terminates.  The folder windows that were asked to close are gone
\* by now, and so is every window of a terminated process; without a shell
\* there is no notification area.
ETA_KillTerminate ==
    /\ pc = "eta_KillTerminate"
    /\ LET calls  == TerminateCalls(SnapshotOrder(procs), procs, OurPid)
           dead   == CallsOf(calls, "TerminateProcess")
           closed == CallsOf(killLog, "WM_CLOSE")
           left   == SelectSeq(windows, LAMBDA w : w.pid \notin dead /\ w.hwnd \notin closed)
       IN  /\ killSnapshot' = procs
           /\ killLog' = killLog \o calls
           /\ procs' = { p \in procs : p.pid \notin dead }
           /\ windows' = left
           /\ foreground' = NextForeground(left, foreground)
           /\ shell' = IF dead # {} THEN "down" ELSE shell
           /\ trayIcon' = (trayIcon /\ dead = {})
           /\ pc' = IF OurPid \in dead THEN "killed" ELSE After("eta_KillExplorerProcess")
           /\ watchdogs' = IF OurPid \in dead THEN <<>> ELSE watchdogs
    /\ UNCHANGED <<regVars, cmdline, globalVars, wdCreated, msgQueue, clicks,
                   timerArmed, tooltip, quitPosted, nextPid, nextHwnd, localVars,
                   seqNo, steps, restoreLog>>

\* StartExplorerProcess(); Sleep(750);  CreateProcessW can fail.
ETA_StartExplorerProcess ==
    /\ pc = "eta_StartExplorerProcess"
    /\ \E started \in BOOLEAN :
         IF started
         THEN /\ procs' = procs \cup {[pid |-> nextPid, exe |-> ExplorerExe, openable |-> TRUE]}
              /\ nextPid' = nextPid + 1
              /\ shell' = IF shell = "down" THEN "starting" ELSE shell
         ELSE UNCHANGED <<procs, nextPid, shell>>
    /\ Step("relaunch shell")
    /\ pc' = After("eta_StartExplorerProcess")
    /\ UNCHANGED <<regVars, cmdline, globalVars, threadVars, uiVars, windows, nextHwnd,
                   foreground, localVars, seqNo, killLog, killSnapshot, restoreLog>>

\* if (shouldReopenExplorer) RestoreExplorerWindows(explorerWindows);
\* for (auto it = windows.rbegin(); it != windows.rend(); ++it)
ETA_RestoreExplorerWindows ==
    /\ pc = "eta_RestoreExplorerWindows"
    /\ it' = ReplayOrder(explorerWindows)
    /\ restoreLog' = <<>>
    /\ Step("replay windows")
    /\ pc' = IF explorerWindows = <<>> THEN After("eta_RestoreExplorerWindows")
             ELSE "eta_RestoreLoop"
    /\ UNCHANGED <<regVars, cmdline, globalVars, threadVars, uiVars, sysVars,
                   foregroundApp, explorerWindows, seqNo, killLog, killSnapshot>>

\* The explorer process a reopened folder window belongs to.
FolderOwners(ps) == { p.pid : p \in { q \in ps : q.exe = ExplorerExe /\ q.pid # OurPid } }

\* What a reopen request (ShellExecuteW "open" explorer.exe <path>) has
\* brought about when the 500 ms are over: no window, a folder window at
\* that path the search can resolve, or one it cannot resolve yet.
ReopenOutcomes == {"none", "window", "unresolved"}

NewFolderWindow(h, owner, path, outcome) ==
    [hwnd |-> h, class |-> FolderClass, visible |-> TRUE, pid |-> owner,
     path |-> path, resolves |-> (outcome = "window"), showCmd |-> SW_SHOWNORMAL,
     rect |-> DefaultRect, title |-> path]

\* One iteration of RestoreExplorerWindows's loop, for the entry *it.
ETA_RestoreOne ==
    /\ pc = "eta_RestoreLoop"
    /\ it # <<>>
    /\ LET e == Head(it)
       IN  IF e.path = EmptyPath
           THEN /\ restoreLog' = Append(restoreLog,
                        [zOrder |-> e.zOrder, requested |-> FALSE, opened |-> 0,
                         found |-> 0, after |-> "none"])
                /\ it' = Advance(it, 0)
                /\ UNCHANGED <<procs, nextPid, windows, nextHwnd, foreground>>
           ELSE \E outcome \in ReopenOutcomes :
                  LET spawn  == outcome # "none" /\ FolderOwners(procs) = {}
                      owner  == IF FolderOwners(procs) = {} THEN nextPid
                                ELSE CHOOSE o \in FolderOwners(procs) :
                                        \A q \in FolderOwners(procs) : q <= o
                      opened == IF outcome = "none" THEN windows
                                ELSE <<NewFolderWindow(nextHwnd, owner, e.path, outcome)>>
                                     \o windows
                      found  == FindByPath(opened, e.path)
                  IN  /\ it' = Advance(it, found)
                      /\ windows' = IF found # 0 THEN ApplyPlacement(opened, found, e)
                                    ELSE opened
                      /\ nextHwnd' = IF outcome = "none" THEN nextHwnd ELSE nextHwnd + 1
                      /\ procs' = IF spawn
                                  THEN procs \cup {[pid |-> nextPid, exe |-> ExplorerExe,
                                                    openable |-> TRUE]}
                                  ELSE procs
                      /\ nextPid' = IF spawn THEN nextPid + 1 ELSE nextPid
                      /\ foreground' = IF found # 0 THEN found
                                       ELSE IF outcome # "none" THEN nextHwnd
                                       ELSE foreground
                      /\ restoreLog' = Append(restoreLog,
                            [zOrder |-> e.zOrder, requested |-> TRUE,
                             opened |-> IF outcome = "none" THEN 0 ELSE nextHwnd,
                             found |-> found,
                             after |-> IF found = 0 THEN "none" ELSE InsertAfter(e)])
    /\ pc' = IF it' = <<>> THEN After("eta_RestoreExplorerWindows") ELSE "eta_RestoreLoop"
    /\ UNCHANGED <<regVars, cmdline, globalVars, threadVars, uiVars, shell,
                   foregroundApp, explorerWindows, seqNo, steps, killLog, killSnapshot>>

\* Sleep(500); RestoreForegroundApp(foregroundApp);
ETA_RestoreForegroundApp ==
    /\ pc = "eta_RestoreForegroundApp"
    /\ LET target == FocusTarget(windows, foregroundApp)
       IN  IF target = 0
           THEN UNCHANGED <<windows, foreground>>
           ELSE /\ windows' = FocusWindow(windows, target, foregroundApp)
                /\ foreground' = target
    /\ Step("restore focus")
    /\ pc' = After("eta_RestoreForegroundApp")
    /\ UNCHANGED <<regVars, cmdline, globalVars, threadVars, uiVars, shell, procs,
                   nextPid, nextHwnd, localVars, seqNo, killLog, killSnapshot,
                   restoreLog>>

\* if (g_isRestartingExplorer) SetTimer(g_hwnd, 1234, 2000, NULL): whether
\* timer 1234 is armed afterwards.
NeverArmTimer(armed, restarting) == armed
ArmTimer(armed, restarting) == armed \/ restarting

\* if (g_hwnd && g_trayMode) { UpdateTrayIconTooltip();
\*     if (g_isRestartingExplorer) SetTimer(g_hwnd, 1234, 2000, NULL); }
\* and the return to the caller: the message loop, or wWinMain's return 0.
ETA_TrayTail ==
    /\ pc = "eta_TrayTail"
    /\ IF g_hwnd /\ g_trayMode
       THEN /\ \E setting \in CurrentSettings(reg) : tooltip' = TipFor(setting)
            /\ timerArmed' = ArmTimer(timerArmed, g_isRestartingExplorer)
       ELSE UNCHANGED <<tooltip, timerArmed>>
    /\ pc' = IF After("eta_TrayTail") # "return" THEN After("eta_TrayTail")
             ELSE IF g_trayMode THEN "GetMessage" ELSE "exited"
    /\ watchdogs' = IF g_trayMode THEN watchdogs ELSE <<>>
    /\ UNCHANGED <<regVars, cmdline, globalVars, wdCreated, msgQueue, clicks, trayIcon,
                   quitPosted, sysVars, localVars, histVars>>

-----------------------------------------------------------------------------
(* WatchdogThreadProc, one action per statement that touches shared state. *)

WatchdogAt(i, at) == i \in DOMAIN watchdogs /\ watchdogs[i].at = at

WatchdogTo(i, at) == watchdogs' = [watchdogs EXCEPT ![i].at = at]

\* Sleep(2000); if (g_hwnd != NULL && IsWindow(g_hwnd)) PostMessage(g_hwnd, WM_TASKBARCREATED, 0, 0);
WD_Post ==
    /\ Running
    /\ \E i \in DOMAIN watchdogs :
         /\ WatchdogAt(i, "Sleep")
         /\ WatchdogTo(i, "clear flag")
    /\ msgQueue' = IF g_hwnd THEN Append(msgQueue, "WM_TASKBARCREATED") ELSE msgQueue
    /\ UNCHANGED <<regVars, pc, cmdline, globalVars, wdCreated, clicks, timerArmed,
                   trayIcon, tooltip, quitPosted, sysVars, localVars, histVars>>

\* g_isRestartingExplorer = false;
WD_ClearFlag ==
    /\ Running
    /\ \E i \in DOMAIN watchdogs :
         /\ WatchdogAt(i, "clear flag")
         /\ WatchdogTo(i, "clear handle")
    /\ g_isRestartingExplorer' = FALSE
    /\ UNCHANGED <<regVars, pc, cmdline, g_trayMode, g_hwnd, g_watchdogThread,
                   wdCreated, uiVars, sysVars, localVars, histVars>>

\* g_watchdogThread = NULL;
WD_ClearHandle ==
    /\ Running
    /\ \E i \in DOMAIN watchdogs :
         /\ WatchdogAt(i, "clear handle")
         /\ WatchdogTo(i, "return")
    /\ g_watchdogThread' = 0
    /\ UNCHANGED <<regVars, pc, cmdline, g_trayMode, g_hwnd, g_isRestartingExplorer,
                   wdCreated, uiVars, sysVars, localVars, histVars>>

\* return 0;
WD_Return ==
    /\ Running
    /\ \E i \in DOMAIN watchdogs :
         /\ WatchdogAt(i, "return")
         /\ watchdogs' = SelectSeq(watchdogs, LAMBDA t : t.id # watchdogs[i].id)
    /\ UNCHANGED <<regVars, pc, cmdline, globalVars, wdCreated, uiVars, sysVars,
                   localVars, histVars>>

-----------------------------------------------------------------------------
(* The user and the shell.                                                 *)

\* A left click on the tray icon: the shell posts WM_TRAYICON / WM_LBUTTONUP.
UserLeftClick ==
    /\ Running
    /\ trayIcon
    /\ clicks < MaxClicks
    /\ clicks' = clicks + 1
    /\ msgQueue' = Append(msgQueue, "WM_LBUTTONUP")
    /\ UNCHANGED <<regVars, pc, cmdline, globalVars, threadVars, timerArmed, trayIcon,
                   tooltip, quitPosted, sysVars, localVars, histVars>>

\* A right click on the tray icon: WM_TRAYICON / WM_RBUTTONUP.
UserRightClick ==
    /\ Running
    /\ trayIcon
    /\ clicks < MaxClicks
    /\ clicks' = clicks + 1
    /\ msgQueue' = Append(msgQueue, "WM_RBUTTONUP")
    /\ UNCHANGED <<regVars, pc, cmdline, globalVars, threadVars, timerArmed, trayIcon,
                   tooltip, quitPosted, sysVars, localVars, histVars>>

\* The relaunched shell has created its taskbar and notification area.
ShellReady ==
    /\ shell = "starting"
    /\ shell' = "up"
    /\ UNCHANGED <<regVars, pc, cmdline, globalVars, threadVars, uiVars, procs,
                   nextPid, windows, nextHwnd, foreground, localVars, histVars>>

-----------------------------------------------------------------------------
(* Where the program starts.                                               *)

Folder(h, path, resolves, visible, showCmd) ==
    [hwnd |-> h, class |-> FolderClass, visible |-> visible, pid |-> 2,
     path |-> path, resolves |-> resolves, showCmd |-> showCmd,
     rect |-> RectOf(h), title |-> path]

Editor ==
    [hwnd |-> 50, class |-> AppClass, visible |-> TRUE, pid |-> 3,
     path |-> EmptyPath, resolves |-> FALSE, showCmd |-> SW_SHOWNORMAL,
     rect |-> RectOf(50), title |-> <<"D", "o", "c">>]

Own(exe) == [pid |-> OurPid, exe |-> exe, openable |-> TRUE]

ShellProcess(openable) == [pid |-> 2, exe |-> ExplorerExe, openable |-> openable]

EditorProcess == [pid |-> 3, exe |-> "app.exe", openable |-> TRUE]

\* The processes of an ordinary session.
PlainProcesses == {Own("ToggleTaskbarAutohide.exe"), ShellProcess(TRUE), EditorProcess}

\* The registry of an ordinary session, in mode `mode`.
PlainRegistry(mode) ==
    [k \in KeyNames |->
        IF k = StuckRects3
        THEN [access |-> "full", present |-> TRUE, setFails |-> FALSE,
              data |-> Blob(SettingsBufferSize, mode, KeySeed(k))]
        ELSE [access |-> "absent", present |-> FALSE, setFails |-> FALSE, data |-> <<>>]]

\* StuckRects3 without its value beside a complete StuckRects2.
EmptyCurrentKeyRegistry ==
    [k \in KeyNames |->
        IF k = StuckRects3
        THEN [access |-> "full", present |-> FALSE, setFails |-> FALSE, data |-> <<>>]
        ELSE [access |-> "full", present |-> TRUE, setFails |-> FALSE,
              data |-> Blob(SettingsBufferSize, TASKBAR_AUTOHIDE, KeySeed(k))]]

\* Only the legacy key, and writing its value fails.
LegacyRegistry ==
    [k \in KeyNames |->
        IF k = StuckRects3
        THEN [access |-> "absent", present |-> FALSE, setFails |-> FALSE, data |-> <<>>]
        ELSE [access |-> "full", present |-> TRUE, setFails |-> TRUE,
              data |-> Blob(SettingsBufferSize, TASKBAR_ALWAYS_VISIBLE, KeySeed(k))]]

\* A desktop: the windows front to back, and the foreground window.
Desktop(ws) == [windows |-> ws, foreground |-> NextForeground(ws, 0)]

\* Neither key exists.
NoRegistry ==
    [k \in KeyNames |->
        [access |-> "absent", present |-> FALSE, setFails |-> FALSE, data |-> <<>>]]

\* The state wWinMain is entered in.
InitProgram(regs, cmds, procTables, desktops) ==
    /\ reg \in regs
    /\ reg0 = reg
    /\ toggleLog = <<>>
    /\ pc = "wWinMain"
    /\ cmdline \in cmds
    /\ g_trayMode = TRAY_MODE
    /\ g_hwnd = FALSE
    /\ g_isRestartingExplorer = FALSE
    /\ g_watchdogThread = 0
    /\ watchdogs = <<>>
    /\ wdCreated = 0
    /\ msgQueue = <<>>
    /\ clicks = 0
    /\ timerArmed = FALSE
    /\ trayIcon = FALSE
    /\ tooltip = ""
    /\ quitPosted = FALSE
    /\ shell = "up"
    /\ procs \in procTables
    /\ nextPid = 10
    /\ \E d \in desktops :
         /\ windows = d.windows
         /\ foreground = d.foreground
    /\ nextHwnd = 200
    /\ foregroundApp = NoApp
    /\ explorerWindows = <<>>
    /\ it = <<>>
    /\ seqNo = 0
    /\ steps = <<>>
    /\ killLog = <<>>
    /\ killSnapshot = {}
    /\ restoreLog = <<>>

\* The state ExecuteToggleAction is entered in on the first left click:
\* the window and the tray icon exist, nothing has been toggled yet.
InitSequence(regs, cmds, procTables, desktops) ==
    /\ reg \in regs
    /\ reg0 = reg
    /\ toggleLog = <<>>
    /\ pc = FirstCall
    /\ cmdline \in cmds
    /\ g_trayMode = TRAY_MODE
    /\ g_hwnd = TRUE
    /\ g_isRestartingExplorer = FALSE
    /\ g_watchdogThread = 0
    /\ watchdogs = <<>>
    /\ wdCreated = 0
    /\ msgQueue = <<>>
    /\ clicks = 1
    /\ timerArmed = FALSE
    /\ trayIcon = TRUE
    /\ tooltip \in { TipFor(setting) : setting \in CurrentSettings(reg) }
    /\ quitPosted = FALSE
    /\ shell = "up"
    /\ procs \in procTables
    /\ nextPid = 10
    /\ \E d \in desktops :
         /\ windows = d.windows
         /\ foreground = d.foreground
    /\ nextHwnd = 200
    /\ foregroundApp = NoApp
    /\ explorerWindows = <<>>
    /\ it = <<>>
    /\ seqNo = 1
    /\ steps = <<>>
    /\ killLog = <<>>
    /\ killSnapshot = {}
    /\ restoreLog = <<>>

-----------------------------------------------------------------------------
(* The whole program in ordinary sessions.                                 *)

MainRegistries == {PlainRegistry(TASKBAR_ALWAYS_VISIBLE), NoRegistry}

MainDesktops ==
    { Desktop(<<Editor>>),
      Desktop(<<Folder(101, <<"A">>, TRUE, TRUE, SW_SHOWNORMAL), Editor>>) }

\* Started plainly, or with --tray --noreopenexplorer.
PlainCommandLine == [tray |-> FALSE, noreopen |-> FALSE]

MainCommandLines == {PlainCommandLine, [tray |-> TRUE, noreopen |-> TRUE]}

Init == InitProgram(MainRegistries, MainCommandLines, {PlainProcesses}, MainDesktops)

ExecuteToggleAction ==
    \/ ETA_GetForegroundAppInfo
    \/ ETA_GetOpenExplorerWindows
    \/ ETA_ToggleTaskbarSetting
    \/ ETA_SetRestarting
    \/ ETA_CreateWatchdog
    \/ ETA_KillPostClose
    \/ ETA_KillTerminate
    \/ ETA_StartExplorerProcess
    \/ ETA_RestoreExplorerWindows
    \/ ETA_RestoreOne
    \/ ETA_RestoreForegroundApp
    \/ ETA_TrayTail

WndProc ==
    \/ WndProc_TaskbarCreated
    \/ WndProc_Timer
    \/ WndProc_TrayLeftClick
    \/ WndProc_TrayRightClick
    \/ WndProc_CommandExit

WatchdogThreadProc ==
    \/ WD_Post
    \/ WD_ClearFlag
    \/ WD_ClearHandle
    \/ WD_Return

Next ==
    \/ wWinMain
    \/ WndProc
    \/ MessageLoopQuit
    \/ ExecuteToggleAction
    \/ WatchdogThreadProc
    \/ UserLeftClick
    \/ UserRightClick
    \/ ShellReady

Spec == Init /\ [][Next]_vars

-----------------------------------------------------------------------------
(* The setting toggler on its own: every registry content, toggled up to   *)
(* MaxToggles times in a row.                                              *)

\* The registries the toggler is run on: every mode byte, every stored
\* length, with or without the value, under every access of the two keys,
\* with RegSetValueExW working or failing.
RegistryContents ==
    { [k \in KeyNames |->
         [access  |-> IF k = StuckRects3 THEN a3 ELSE a2,
          present |-> IF k = StuckRects3 THEN p3 ELSE p2,
          setFails |-> fails,
          data    |-> IF k = StuckRects3
                      THEN (IF p3 THEN Blob(len, mode, KeySeed(k)) ELSE <<>>)
                      ELSE (IF p2 THEN Blob(len, mode, KeySeed(k)) ELSE <<>>)]] :
        a3 \in AccessKinds, a2 \in AccessKinds, p3 \in BOOLEAN, p2 \in BOOLEAN,
        fails \in BOOLEAN, len \in StoredLengths, mode \in Bytes }

InitReg ==
    InitSequence(RegistryContents, {PlainCommandLine},
                 {PlainProcesses}, {Desktop(<<Editor>>)})

\* ToggleTaskbarSetting called again on what the call before left.
RegToggle ==
    /\ Len(toggleLog) < MaxToggles
    /\ \E garbage \in GarbageFor(reg) :
         LET t == ToggleTaskbarSetting(reg, garbage)
         IN  /\ reg' = t.reg
             /\ toggleLog' = Append(toggleLog, t.log)
    /\ UNCHANGED <<reg0, pc, cmdline, globalVars, threadVars, uiVars, sysVars,
                   localVars, histVars>>

NextReg == RegToggle

SpecReg == InitReg /\ [][NextReg]_vars

-----------------------------------------------------------------------------
(* Claims about the setting toggler (checked under SpecReg).               *)

ToggleCalls == DOMAIN toggleLog

ModeOf(data) == data[ModeOffset + 1]

HasModeByte(data) == Len(data) > ModeOffset

\* The mapping the specification states, written out case by case.
StatedToggle(b) ==
    CASE b = 2 -> 3
      [] b = 3 -> 2
      [] OTHER -> 2

\* C1: one successful ToggleTaskbarSetting maps the mode byte at offset 0x08,
\* for every byte value: 0x02 becomes 0x03, 0x03 becomes 0x02, anything else
\* becomes 0x02; and that is the byte the registry then holds.
C1_ToggleMapsModeByte ==
    \A i \in ToggleCalls :
        LET t == toggleLog[i]
        IN  (t.ret /\ HasModeByte(t.readData)) =>
                /\ ModeOf(t.writeData) = StatedToggle(ModeOf(t.readData))
                /\ (i = Len(toggleLog) =>
                        ModeOf(reg[t.key].data) = StatedToggle(ModeOf(t.readData)))

\* C1 witness: a successful toggle of a 64-byte blob whose mode byte is neither
\* of the two documented values.
C1_Witness ==
    \E i \in ToggleCalls :
        /\ toggleLog[i].ret
        /\ Len(toggleLog[i].readData) = SettingsBufferSize
        /\ ModeOf(toggleLog[i].readData) = 255
        /\ ModeOf(toggleLog[i].writeData) = TASKBAR_ALWAYS_VISIBLE

\* Two successful toggles in a row of the same 64-byte value.
TogglePairs ==
    { i \in ToggleCalls :
        /\ i + 1 \in ToggleCalls
        /\ toggleLog[i].ret /\ toggleLog[i + 1].ret
        /\ toggleLog[i].key = toggleLog[i + 1].key
        /\ Len(toggleLog[i].readData) = SettingsBufferSize }

OtherBytesEqual(a, b) ==
    /\ Len(a) = Len(b)
    /\ \A p \in 1 .. Len(a) : p # ModeOffset + 1 => a[p] = b[p]

\* C2 as stated: toggling twice from any starting mode byte gives back the
\* blob that was there before the pair, mode byte included.
C2_PairRestoresAnyMode ==
    \A i \in TogglePairs : toggleLog[i + 1].writeData = toggleLog[i].readData

\* C2 amended: toggling twice from a starting mode byte of 0x02 or 0x03 gives
\* back the original mode byte; from any other starting byte the pair ends at
\* 0x03; in every case all other bytes of the 64-byte blob are the same before
\* and after the pair, and the registry holds the result.
C2_PairRestoresKnownMode ==
    \A i \in TogglePairs :
        LET before == toggleLog[i].readData
            after  == toggleLog[i + 1].writeData
        IN  /\ OtherBytesEqual(before, after)
            /\ ModeOf(before) \in {TASKBAR_ALWAYS_VISIBLE, TASKBAR_AUTOHIDE}
                   => after = before
            /\ ModeOf(before) \notin {TASKBAR_ALWAYS_VISIBLE, TASKBAR_AUTOHIDE}
                   => ModeOf(after) = TASKBAR_AUTOHIDE
            /\ (i + 1 = Len(toggleLog) => reg[toggleLog[i].key].data = after)

\* C2 witness: a pair of successful toggles that started from auto-hide.
C2_Witness ==
    \E i \in TogglePairs :
        /\ ModeOf(toggleLog[i].readData) = TASKBAR_AUTOHIDE
        /\ ModeOf(toggleLog[i + 1].readData) = TASKBAR_ALWAYS_VISIBLE
        /\ ModeOf(toggleLog[i + 1].writeData) = TASKBAR_AUTOHIDE

\* Keys some call has stored a value under.
KeysWritten == { toggleLog[i].writeKey : i \in { j \in ToggleCalls : toggleLog[j].setOk } }

\* C3: a toggle is a read-modify-write that changes nothing but the mode byte:
\* what is written has the length of what was read, goes to the key and value
\* name it was read from, and equals it at every offset but 0x08; nothing is
\* written without a successful read, and no key or value is created.
C3_ReadModifyWrite ==
    /\ \A i \in ToggleCalls :
          LET t == toggleLog[i]
          IN  /\ t.wrote => /\ t.queried
                            /\ t.writeKey = t.key
                            /\ t.writeName = t.readName
                            /\ OtherBytesEqual(t.readData, t.writeData)
              /\ (t.setOk /\ i = Len(toggleLog)) => reg[t.key].data = t.writeData
              /\ t.setOk => t.wrote
    /\ \A k \in KeyNames :
          /\ reg[k].access = reg0[k].access
          /\ reg[k].present = reg0[k].present
          /\ reg[k].setFails = reg0[k].setFails
          /\ k \notin KeysWritten => reg[k] = reg0[k]
          /\ OtherBytesEqual(reg0[k].data, reg[k].data)

\* C3 witness: a short value read from the legacy key and written back to it.
C3_Witness ==
    \E i \in ToggleCalls :
        /\ toggleLog[i].setOk
        /\ toggleLog[i].key = StuckRects2
        /\ Len(toggleLog[i].readData) = 12
        /\ ModeOf(toggleLog[i].writeData) # ModeOf(toggleLog[i].readData)

\* C4 as stated: when the stored value is not 64 bytes long, shorter or longer,
\* the toggle reports failure and the stored value stays as it was.
C4_WrongLengthRejected ==
    \A i \in ToggleCalls :
        LET t == toggleLog[i]
        IN  (t.key # NoKey /\ reg0[t.key].present
               /\ Len(reg0[t.key].data) # SettingsBufferSize)
            => (~t.ret /\ ~t.setOk /\ reg[t.key] = reg0[t.key])

\* The blob can be obtained under key k: the key opens and holds the value.
Obtainable(r, k) == RegOpenReadWrite(r, k) /\ r[k].present

\* Every stored value has the documented length.
WellFormed(r) ==
    \A k \in KeyNames : r[k].present => Len(r[k].data) = SettingsBufferSize

\* C5 as stated: StuckRects3 is used when the blob can be had from it,
\* StuckRects2 whenever it cannot, and the toggle fails before writing exactly
\* when the blob can be had under neither name.
C5_FallsBackWheneverUnreadable ==
    WellFormed(reg0) =>
        \A i \in ToggleCalls :
            LET t == toggleLog[i]
            IN  /\ Obtainable(reg0, StuckRects3) => t.key = StuckRects3
                /\ (~Obtainable(reg0, StuckRects3) /\ Obtainable(reg0, StuckRects2))
                       => (t.key = StuckRects2 /\ t.queried)
                /\ (~t.queried /\ ~t.wrote)
                       <=> (~Obtainable(reg0, StuckRects3) /\ ~Obtainable(reg0, StuckRects2))

-----------------------------------------------------------------------------
(* One toggle sequence on its own, from the left click to the return to    *)
(* the message loop, over every process table.                             *)

NextSeq == ExecuteToggleAction

\* A process beside the usual three, or none.
ExtraProcesses(pid) ==
    {{}} \cup { {[pid |-> pid, exe |-> exe, openable |-> openable]} :
                  exe \in ExeNames, openable \in BOOLEAN }

\* The program under its own name or installed as explorer.exe; a shell that
\* can be opened for termination or not; up to two more processes.
ProcessTables ==
    { {Own(own), ShellProcess(shellOpens), EditorProcess} \cup x4 \cup x5 :
        own \in {"ToggleTaskbarAutohide.exe", ExplorerExe}, shellOpens \in BOOLEAN,
        x4 \in ExtraProcesses(4), x5 \in ExtraProcesses(5) }

KillDesktop ==
    Desktop(<<Folder(101, <<"A">>, TRUE, TRUE, SW_SHOWNORMAL), Editor,
              Folder(102, <<"B">>, TRUE, TRUE, SW_SHOWMINIMIZED)>>)

InitKill ==
    InitSequence({LegacyRegistry, EmptyCurrentKeyRegistry}, {PlainCommandLine},
                 ProcessTables, {KillDesktop})

SpecKill == InitKill /\ [][NextSeq]_vars

-----------------------------------------------------------------------------
(* One toggle sequence on its own, over every arrangement of folder        *)
(* windows.                                                                *)

\* The folder windows a desktop is made of: normal, minimized, maximized, a
\* path that differs from another in case only, a virtual folder (no file
\* system path), one whose automation chain fails, a hidden one.
FolderKinds ==
    << Folder(101, <<"A">>, TRUE, TRUE, SW_SHOWNORMAL),
       Folder(102, <<"B">>, TRUE, TRUE, SW_SHOWMINIMIZED),
       Folder(103, <<"C">>, TRUE, TRUE, SW_SHOWMAXIMIZED),
       Folder(104, <<"a">>, TRUE, TRUE, SW_SHOWNORMAL),
       Folder(105, EmptyPath, TRUE, TRUE, SW_SHOWNORMAL),
       Folder(106, <<"B", "C">>, FALSE, TRUE, SW_SHOWNORMAL),
       Folder(107, <<"C", "A">>, TRUE, FALSE, SW_SHOWNORMAL) >>

\* Up to MaxFolders different folder windows, in any order.
Arrangements ==
    { order \in UNION { [1 .. n -> DOMAIN FolderKinds] : n \in 0 .. MaxFolders } :
        \A i, j \in DOMAIN order : i # j => order[i] # order[j] }

\* The editor in front, the folder windows behind it.
WinDesktops ==
    { Desktop(<<Editor>> \o [i \in DOMAIN order |-> FolderKinds[order[i]]]) :
        order \in Arrangements }

InitWin ==
    InitSequence({PlainRegistry(TASKBAR_AUTOHIDE)}, {PlainCommandLine},
                 {PlainProcesses}, WinDesktops)

SpecWin == InitWin /\ [][NextSeq]_vars

-----------------------------------------------------------------------------
(* Claims about the toggle sequence.                                       *)

StepsOf(n) == SelectSeq(steps, LAMBDA st : st[1] = n)

StepNames(n) == [i \in DOMAIN StepsOf(n) |-> StepsOf(n)[i][2]]

\* C6 as stated: a toggle that failed on the configuration (key unavailable,
\* malformed blob, write denied) stops its sequence: the shell is neither
\* terminated nor relaunched in it.  (Checked under Spec.)
C6_ConfigFailureStopsSequence ==
    \A n \in DOMAIN toggleLog :
        ~toggleLog[n].ret =>
            \A i \in DOMAIN StepNames(n) :
                StepNames(n)[i] \notin {"terminate shell", "relaunch shell"}

\* The steps in the order the specification gives them.
StatedOrder ==
    <<"snapshot foreground", "snapshot windows", "toggle", "terminate shell",
      "relaunch shell", "replay windows", "restore focus">>

Rank(name) == CHOOSE r \in DOMAIN StatedOrder : StatedOrder[r] = name

\* The steps a whole sequence is made of under the given command line.
StepsExpected(cmd) ==
    SelectSeq(StatedOrder,
              LAMBDA name : cmd.noreopen => name \notin {"snapshot windows", "replay windows"})

IsPrefix(a, b) == Len(a) <= Len(b) /\ \A i \in DOMAIN a : a[i] = b[i]

\* C7: every toggle sequence runs its steps in the order snapshot, toggle,
\* terminate shell, relaunch shell, replay windows, restore focus; the steps
\* of one sequence are never interleaved with those of another; and both
\* snapshots are taken before the shell is terminated.  (Checked under Spec.)
C7_StepsInOrder ==
    /\ \A i, j \in DOMAIN steps :
          i < j => \/ steps[i][1] < steps[j][1]
                   \/ /\ steps[i][1] = steps[j][1]
                      /\ Rank(steps[i][2]) < Rank(steps[j][2])
    /\ \A n \in 1 .. seqNo :
          /\ IsPrefix(StepNames(n), StepsExpected(cmdline))
          /\ n < seqNo => StepNames(n) = StepsExpected(cmdline)
    /\ \A i \in DOMAIN steps :
          steps[i][2] = "terminate shell" =>
              /\ \E j \in 1 .. i - 1 : steps[j] = <<steps[i][1], "snapshot foreground">>
              /\ shouldReopenExplorer =>
                    \E j \in 1 .. i - 1 : steps[j] = <<steps[i][1], "snapshot windows">>
    /\ killLog # <<>> =>
          \E i \in DOMAIN steps : steps[i][2] = "snapshot foreground"

\* C7 witness: two whole sequences, one after the other, folder windows
\* included.
C7_Witness ==
    /\ ~cmdline.noreopen
    /\ StepNames(1) = StatedOrder
    /\ StepNames(2) = StatedOrder
    /\ pc = "GetMessage"

Pids(ps) == { p.pid : p \in ps }

\* C8: KillExplorerProcess never terminates the caller's own process, not even
\* when the caller's executable is named explorer.exe; for every other process
\* of the snapshot named explorer.exe it asks for termination (OpenProcess with
\* PROCESS_TERMINATE, then TerminateProcess on the handle it got), and for no
\* other process; and every WM_CLOSE to a folder window is posted before the
\* first of these calls.  (Checked under SpecKill.)
C8_KillSparesOnlySelf ==
    killSnapshot # {} =>
        /\ OurPid \notin CallsOf(killLog, "OpenProcess")
        /\ OurPid \notin CallsOf(killLog, "TerminateProcess")
        /\ OurPid \in Pids(procs)
        /\ pc # "killed"
        /\ \A p \in killSnapshot :
              (p.exe = ExplorerExe /\ p.pid # OurPid) =>
                  /\ p.pid \in CallsOf(killLog, "OpenProcess")
                  /\ p.openable => /\ p.pid \in CallsOf(killLog, "TerminateProcess")
                                   /\ p.pid \notin Pids(procs)
        /\ \A pid \in CallsOf(killLog, "OpenProcess") \cup CallsOf(killLog, "TerminateProcess") :
              /\ pid \in Pids(killSnapshot)
              /\ ProcOf(killSnapshot, pid).exe = ExplorerExe
        /\ \A i, j \in DOMAIN killLog :
              (killLog[i][1] = "WM_CLOSE" /\ killLog[j][1] # "WM_CLOSE") => i < j

\* C8 witness: the program itself runs as explorer.exe, the shell and one more
\* explorer.exe were terminated after the folder windows were asked to close.
C8_Witness ==
    /\ \E p \in killSnapshot : p.pid = OurPid /\ p.exe = ExplorerExe
    /\ {2, 4} \subseteq CallsOf(killLog, "TerminateProcess")
    /\ CallsOf(killLog, "WM_CLOSE") = {101, 102}
    /\ OurPid \in Pids(procs)

\* RestoreExplorerWindows has returned and RestoreForegroundApp has not run.
RestoreDone ==
    /\ pc = "eta_RestoreForegroundApp"
    /\ \E i \in DOMAIN steps : steps[i] = <<seqNo, "replay windows">>

\* What the loop noted for the k-th captured window (1 is the front one).
LogFor(k) ==
    CHOOSE i \in DOMAIN restoreLog : restoreLog[i].zOrder = explorerWindows[k].zOrder

FoundFor(k) == restoreLog[LogFor(k)].found

\* Every captured window has a path and was found again after its request.
AllResolved ==
    /\ explorerWindows # <<>>
    /\ Len(restoreLog) = Len(explorerWindows)
    /\ \A k \in DOMAIN explorerWindows :
          explorerWindows[k].path # EmptyPath /\ FoundFor(k) # 0

FoundDistinct ==
    \A k, m \in DOMAIN explorerWindows : k # m => FoundFor(k) # FoundFor(m)

\* The windows found again, in their present front-to-back order.
ReopenedFrontToBack ==
    LET found == { FoundFor(k) : k \in DOMAIN explorerWindows }
        ws    == SelectSeq(windows, LAMBDA w : w.hwnd \in found)
    IN  [i \in DOMAIN ws |-> ws[i].hwnd]

\* C9: the captured folder windows are replayed in reverse capture order, so
\* when every one of them is found again, the window on top once
\* RestoreExplorerWindows has finished is the one reopened for the front-most
\* captured window, and the reopened windows lie in the captured front-to-back
\* order.  (Checked under SpecWin.)
C9_ReplayKeepsFrontToBack ==
    (RestoreDone /\ AllResolved) =>
        /\ windows[1].hwnd = FoundFor(1)
        /\ \A k \in DOMAIN restoreLog :
              restoreLog[k].zOrder = explorerWindows[Len(explorerWindows) + 1 - k].zOrder
        /\ FoundDistinct =>
              ReopenedFrontToBack = [k \in DOMAIN explorerWindows |-> FoundFor(k)]

\* C9 witness: three captured windows C (front, maximized), B (minimized),
\* A, all found again after the replay.
C9_Witness ==
    /\ RestoreDone /\ AllResolved /\ FoundDistinct
    /\ [k \in DOMAIN explorerWindows |-> explorerWindows[k].path]
           = << <<"C">>, <<"B">>, <<"A">> >>
    /\ windows[1].path = <<"C">>
    /\ windows[1].hwnd \notin {101, 102, 103}

\* C10: a captured window that is not found after its reopen request is
\* skipped and the loop goes on: every captured window is gone through in
\* replay order, each one with a non-empty path gets its reopen request
\* whatever happened to the ones before, and each one found gets its placement
\* (position, show state, Z-order) applied.  (Checked under SpecWin.)
C10_MissingWindowSkipped ==
    LET replay == ReplayOrder(explorerWindows)
        n      == Len(restoreLog)
    IN  /\ n <= Len(replay)
        /\ \A k \in DOMAIN restoreLog :
              /\ restoreLog[k].zOrder = replay[k].zOrder
              /\ restoreLog[k].requested = (replay[k].path # EmptyPath)
              /\ (restoreLog[k].found # 0) = (restoreLog[k].after # "none")
              /\ restoreLog[k].found # 0 => restoreLog[k].requested
        /\ pc = "eta_RestoreLoop" =>
              /\ n < Len(replay)
              /\ it = SubSeq(replay, n + 1, Len(replay))
        /\ RestoreDone => n = Len(replay)
        /\ (pc \in {"eta_RestoreLoop", "eta_RestoreForegroundApp"}
              /\ n > 0 /\ restoreLog[n].found # 0) =>
              LET w == WindowOf(windows, restoreLog[n].found)
              IN  /\ w.rect = replay[n].position
                  /\ w.showCmd = IF replay[n].showCmd = SW_SHOWMAXIMIZED
                                 THEN SW_SHOWMAXIMIZED ELSE SW_SHOWNORMAL
                  /\ windows[1] = w

\* C10 witness: the loop has finished; a window that was requested did not
\* come back, and one replayed after it was found and placed.
C10_Witness ==
    /\ RestoreDone
    /\ \E i, j \in DOMAIN restoreLog :
          /\ i < j
          /\ restoreLog[i].requested /\ restoreLog[i].found = 0
          /\ restoreLog[j].found # 0 /\ restoreLog[j].after = "HWND_TOP"

-----------------------------------------------------------------------------
(* Claims about the watchdog thread and the tray icon (checked under Spec). *)

\* The watchdog threads that have not yet cleared g_watchdogThread.
PendingWatchdogs == { i \in DOMAIN watchdogs : watchdogs[i].at # "return" }

\* C11 as stated: at any time at most one watchdog thread has not yet
\* finished, so none is created while an earlier one is still running.
C11_OneWatchdogThread == Len(watchdogs) <= 1

\* C11 amended: at any time at most one watchdog thread has not yet cleared
\* the watchdog handle (its last statement before it returns), and the handle
\* names that thread exactly while there is one; so no watchdog is created
\* while an earlier one still has its post or its clearing ahead of it.
C11_OneWatchdogBeforeHandleClear ==
    /\ Cardinality(PendingWatchdogs) <= 1
    /\ \A i \in PendingWatchdogs : g_watchdogThread = watchdogs[i].id
    /\ (g_watchdogThread # 0 /\ Running) => PendingWatchdogs # {}

\* C11 witness: a second toggle created a second watchdog after the first one
\* had cleared the handle and gone.
C11_Witness ==
    /\ wdCreated = 2
    /\ Len(watchdogs) = 1
    /\ watchdogs[1].id = 2
    /\ watchdogs[1].at = "Sleep"

\* The program's threads keep running and the relaunched shell gets its
\* notification area up in the end; the user need not click.  g_hwnd is a
\* message-only window (parent HWND_MESSAGE), which broadcasts such as the
\* shell's own TaskbarCreated do not reach: WM_TASKBARCREATED comes from the
\* watchdog's PostMessage alone.
Fairness ==
    /\ WF_vars(wWinMain)
    /\ WF_vars(WndProc)
    /\ WF_vars(MessageLoopQuit)
    /\ WF_vars(ExecuteToggleAction)
    /\ WF_vars(WatchdogThreadProc)
    /\ WF_vars(ShellReady)

SpecLive == Init /\ [][Next]_vars /\ Fairness

\* C12 as stated: in resident mode, after the shell relaunch of every toggle
\* sequence the tray icon is eventually registered again (or the program has
\* ended), by the watchdog's message or the end-of-toggle timer alone.
\* (Checked under SpecLive.)
C12_TrayEventuallyReregistered ==
    (shell = "starting" /\ Running) ~> (trayIcon \/ ~Running)

\* The names of all steps taken so far.
AllStepNames == { steps[i][2] : i \in DOMAIN steps }

\* C13, the part about folder windows: with --noreopenexplorer every whole
\* sequence still toggles, terminates and relaunches the shell, and no folder
\* window is captured or reopened.
NoReopenSkipsFolderWindows ==
    cmdline.noreopen =>
        /\ AllStepNames \cap {"snapshot windows", "replay windows"} = {}
        /\ explorerWindows = <<>> /\ restoreLog = <<>> /\ it = <<>>
        /\ nextHwnd = 200
        /\ \A n \in 1 .. seqNo :
              (n < seqNo \/ pc = "GetMessage") =>
                  {"toggle", "terminate shell", "relaunch shell"}
                      \subseteq { StepNames(n)[i] : i \in DOMAIN StepNames(n) }

\* C13 as stated: with --noreopenexplorer a toggle still toggles the setting
\* and terminates and relaunches the shell, but no folder window is captured
\* or reopened and no session state (the snapshot of the folder windows and of
\* the focused application) is captured or replayed.  (Checked under Spec.)
C13_NoReopenSkipsSession ==
    /\ NoReopenSkipsFolderWindows
    /\ cmdline.noreopen =>
          /\ AllStepNames \cap {"snapshot foreground", "restore focus"} = {}
          /\ foregroundApp = NoApp

\* C14 as stated: started without --tray the program is in run-once mode: it
\* performs exactly one toggle sequence and exits, creating neither the window
\* nor the tray icon; started with --tray it is resident: one toggle sequence
\* per left click, and it ends only on the explicit exit (or when start-up
\* failed).  (Checked under Spec.)
C14_TwoModes ==
    /\ ~cmdline.tray =>
          /\ ~g_hwnd /\ ~trayIcon
          /\ pc # "GetMessage"
          /\ seqNo <= 1
          /\ (pc = "exited" /\ seqNo = 1) => StepNames(1) = StepsExpected(cmdline)
    /\ cmdline.tray =>
          /\ seqNo <= clicks
          /\ (pc = "exited" /\ g_hwnd) => quitPosted

-----------------------------------------------------------------------------
(* More claims about the setting toggler (checked under SpecReg).          *)

\* Successful toggles of a value that covers the mode byte and holds neither
\* of the two documented modes there.
UnknownModeToggles ==
    { i \in ToggleCalls :
        /\ toggleLog[i].ret
        /\ HasModeByte(toggleLog[i].readData)
        /\ ModeOf(toggleLog[i].readData) \notin {TASKBAR_ALWAYS_VISIBLE, TASKBAR_AUTOHIDE} }

\* C15 as stated: a mode byte that is neither 0x02 nor 0x03 is toggled like
\* AlwaysVisible (0x02), so the result is what 0x02 toggles to, and the rest
\* of the blob is preserved.
C15_UnknownToggledAsVisible ==
    \A i \in UnknownModeToggles :
        /\ ModeOf(toggleLog[i].writeData) = ToggledMode(TASKBAR_ALWAYS_VISIBLE)
        /\ OtherBytesEqual(toggleLog[i].readData, toggleLog[i].writeData)

\* C15 amended: a mode byte that is neither 0x02 nor 0x03 is toggled like
\* AutoHide (0x03): the result is what 0x03 toggles to, AlwaysVisible (0x02),
\* and the rest of the blob is preserved.
C15_UnknownToggledAsAutoHide ==
    \A i \in UnknownModeToggles :
        /\ ModeOf(toggleLog[i].writeData) = ToggledMode(TASKBAR_AUTOHIDE)
        /\ ModeOf(toggleLog[i].writeData) = TASKBAR_ALWAYS_VISIBLE
        /\ OtherBytesEqual(toggleLog[i].readData, toggleLog[i].writeData)

\* C15 witness: a 64-byte blob with mode byte 0x00 toggled to 0x02 with its
\* other bytes as they were.
C15_Witness ==
    \E i \in UnknownModeToggles :
        /\ Len(toggleLog[i].readData) = SettingsBufferSize
        /\ ModeOf(toggleLog[i].readData) = 0
        /\ ModeOf(toggleLog[i].writeData) = TASKBAR_ALWAYS_VISIBLE
        /\ reg[toggleLog[i].key].data = toggleLog[i].writeData

-----------------------------------------------------------------------------
(* More claims about the folder windows (checked under SpecWin).           *)

\* The captured entry the loop has just dealt with, and the window found
\* for it (0 if none).
LastReplayed == ReplayOrder(explorerWindows)[Len(restoreLog)]
LastFound == restoreLog[Len(restoreLog)].found

JustPlaced ==
    /\ pc \in {"eta_RestoreLoop", "eta_RestoreForegroundApp"}
    /\ restoreLog # <<>>
    /\ LastFound # 0

\* C16: a captured folder window found again gets its recorded position and
\* size, then its recorded show state (maximized, minimized or normal), then
\* its place in the Z-order: the bottom if and only if it was captured
\* minimized, the top otherwise; and the show states the restore tests for
\* are the ones the capture records.
C16_PlacementRestored ==
    /\ \A k \in DOMAIN explorerWindows :
          explorerWindows[k].showCmd \in {SW_SHOWNORMAL, SW_MAXIMIZE, SW_MINIMIZE}
    /\ JustPlaced =>
          LET e == LastReplayed
              w == WindowOf(windows, LastFound)
              minimized == e.showCmd = SW_SHOWMINIMIZED
          IN  /\ w.rect = e.position
              /\ w.showCmd = e.showCmd
              /\ restoreLog[Len(restoreLog)].after
                    = IF minimized THEN "HWND_BOTTOM" ELSE "HWND_TOP"
              /\ IF minimized THEN windows[Len(windows)] = w ELSE windows[1] = w

\* GetOpenExplorerWindows has just returned: the desktop is still the one it
\* walked.
JustCaptured ==
    /\ pc = After("eta_GetOpenExplorerWindows")
    /\ steps # <<>> /\ steps[Len(steps)] = <<seqNo, "snapshot windows">>

\* The visible folder-class windows of the desktop, front to back.
VisibleFolderWindows ==
    SelectSeq(windows, LAMBDA w : w.visible /\ w.class = FolderClass)

\* Those of them whose folder the shell identifies (its item id list is
\* obtained), front to back.
IdentifiedFolderWindows == SelectSeq(VisibleFolderWindows, LAMBDA w : w.resolves)

\* No reopen request goes out for an entry with an empty path.
EmptyPathNotReopened ==
    \A k \in DOMAIN restoreLog :
        LET e == ReplayOrder(explorerWindows)[k]
        IN  e.path = EmptyPath =>
              /\ ~restoreLog[k].requested
              /\ restoreLog[k].opened = 0
              /\ restoreLog[k].found = 0

\* C17 as stated: the capture has one entry per visible folder-class window,
\* front to back; a window whose folder path cannot be resolved is among them
\* with an empty path; no reopen request goes out for an entry with an empty
\* path.
C17_EveryFolderWindowRecorded ==
    /\ JustCaptured =>
          /\ Len(explorerWindows) = Len(VisibleFolderWindows)
          /\ \A k \in DOMAIN explorerWindows :
                /\ explorerWindows[k].hwnd = VisibleFolderWindows[k].hwnd
                /\ explorerWindows[k].path
                      = IF VisibleFolderWindows[k].resolves
                        THEN VisibleFolderWindows[k].path ELSE EmptyPath
    /\ EmptyPathNotReopened

\* C17 amended: the capture has one entry per visible folder-class window
\* whose folder the shell identifies, front to back (zOrder ascending); such
\* a window without a file-system path is recorded with an empty path, a
\* window the shell does not identify is not recorded at all; no reopen
\* request goes out for an entry with an empty path.
C17_IdentifiedFolderWindowsRecorded ==
    /\ JustCaptured =>
          /\ Len(explorerWindows) = Len(IdentifiedFolderWindows)
          /\ \A k \in DOMAIN explorerWindows :
                /\ explorerWindows[k].hwnd = IdentifiedFolderWindows[k].hwnd
                /\ explorerWindows[k].path = IdentifiedFolderWindows[k].path
          /\ \A k, m \in DOMAIN explorerWindows :
                k < m => explorerWindows[k].zOrder < explorerWindows[m].zOrder
    /\ EmptyPathNotReopened

\* C17 witness: a window without a file-system path in front of one the
\* shell does not identify and of A; the capture holds the first, with an
\* empty path, and A.
C17_Witness ==
    /\ JustCaptured
    /\ [k \in DOMAIN VisibleFolderWindows |-> VisibleFolderWindows[k].hwnd]
          = <<105, 106, 101>>
    /\ [k \in DOMAIN explorerWindows |-> explorerWindows[k].hwnd] = <<105, 101>>
    /\ explorerWindows[1].path = EmptyPath
    /\ explorerWindows[2].path = <<"A">>

-----------------------------------------------------------------------------
(* One toggle sequence on its own, over desktops of application windows,   *)
(* with the recorded foreground window free to go away meanwhile.          *)

MaxAppWindows == 3

AppWindow(h, pid, title, visible) ==
    [hwnd |-> h, class |-> AppClass, visible |-> visible, pid |-> pid,
     path |-> EmptyPath, resolves |-> FALSE, showCmd |-> SW_SHOWNORMAL,
     rect |-> RectOf(h), title |-> title]

\* Windows of the editor (process 3) and of another application (process 4),
\* and a folder window.
AppKinds ==
    << AppWindow(51, 3, <<"D">>, TRUE),
       AppWindow(52, 3, <<"D", "o">>, TRUE),
       AppWindow(53, 4, <<"D">>, TRUE),
       AppWindow(54, 3, <<"D">>, FALSE),
       AppWindow(55, 3, <<>>, TRUE),
       AppWindow(56, 3, <<"x">>, TRUE),
       [AppWindow(57, 3, <<"D">>, TRUE) EXCEPT !.showCmd = SW_SHOWMAXIMIZED],
       Folder(101, <<"A">>, TRUE, TRUE, SW_SHOWNORMAL) >>

AppArrangements ==
    { order \in UNION { [1 .. n -> DOMAIN AppKinds] : n \in 0 .. MaxAppWindows } :
        \A i, j \in DOMAIN order : i # j => order[i] # order[j] }

AppDesktops ==
    { Desktop([i \in DOMAIN order |-> AppKinds[order[i]]]) : order \in AppArrangements }

OtherAppProcess == [pid |-> 4, exe |-> "app.exe", openable |-> FALSE]

InitFocus ==
    InitSequence({PlainRegistry(TASKBAR_ALWAYS_VISIBLE)}, {PlainCommandLine},
                 {PlainProcesses \cup {OtherAppProcess}}, AppDesktops)

\* The window recorded by GetForegroundAppInfo is destroyed by its owner
\* while the sequence sleeps: what !IsWindow(appInfo.hwnd) provides for.
RecordedWindowCloses ==
    /\ pc \in {"eta_KillExplorerProcess", "eta_StartExplorerProcess",
               "eta_RestoreExplorerWindows", "eta_RestoreForegroundApp"}
    /\ foregroundApp.hwnd # 0
    /\ IsWindow(windows, foregroundApp.hwnd)
    /\ WindowOf(windows, foregroundApp.hwnd).class = AppClass
    /\ windows' = Without(windows, foregroundApp.hwnd)
    /\ foreground' = NextForeground(windows', foreground)
    /\ UNCHANGED <<regVars, pc, cmdline, globalVars, threadVars, uiVars, shell, procs,
                   nextPid, nextHwnd, localVars, histVars>>

NextFocus == ExecuteToggleAction \/ RecordedWindowCloses

SpecFocus == InitFocus /\ [][NextFocus]_vars

-----------------------------------------------------------------------------
(* Claims about the foreground application (checked under SpecFocus).      *)

\* The windows that qualify for the search: visible, of the recorded
\* process, the title equal to the recorded one or containing it when the
\* recorded one is not empty.
Qualifying ==
    { i \in DOMAIN windows :
        /\ windows[i].visible
        /\ windows[i].pid = foregroundApp.processId
        /\ \/ windows[i].title = foregroundApp.windowTitle
           \/ /\ foregroundApp.windowTitle # <<>>
              /\ \E at \in 0 .. Len(windows[i].title) - Len(foregroundApp.windowTitle) :
                    SubSeq(windows[i].title, at + 1, at + Len(foregroundApp.windowTitle))
                        = foregroundApp.windowTitle }

RecordedStillValid ==
    foregroundApp.hwnd # 0 /\ \E i \in DOMAIN windows : windows[i].hwnd = foregroundApp.hwnd

\* What the call of RestoreForegroundApp does, from the state it is made in
\* to the state it returns in.
FocusAsStated ==
    IF RecordedStillValid
    THEN /\ foreground' = foregroundApp.hwnd
         /\ windows'[1].hwnd = foregroundApp.hwnd
    ELSE IF Qualifying = {}
    THEN /\ foreground' = foreground
         /\ windows' = windows
    ELSE LET first == CHOOSE i \in Qualifying : \A j \in Qualifying : i <= j
         IN  /\ foreground' = windows[first].hwnd
             /\ windows'[1].hwnd = windows[first].hwnd

\* C18: RestoreForegroundApp focuses the recorded window whenever its handle
\* is still a window; otherwise the first window, front to back, that is
\* visible, belongs to the recorded process and has a title equal to the
\* recorded one or containing it (the recorded one not empty); when none
\* qualifies it focuses nothing, and the sequence goes on either way.
C18_FocusRestored ==
    [][ (pc = "eta_RestoreForegroundApp" /\ pc' # pc) =>
            /\ FocusAsStated
            /\ pc' = After("eta_RestoreForegroundApp")
            /\ foregroundApp' = foregroundApp ]_vars

RestoreFocusDone ==
    /\ pc = After("eta_RestoreForegroundApp")
    /\ steps # <<>> /\ steps[Len(steps)] = <<seqNo, "restore focus">>

\* C18 witness: the recorded window (title D, process 3) is gone; in front
\* lay a window of another process with the same title, then one of process
\* 3 whose title only contains D: that one has the focus now.
C18_Witness ==
    /\ RestoreFocusDone
    /\ foregroundApp.hwnd = 51 /\ ~RecordedStillValid
    /\ [i \in DOMAIN windows |-> windows[i].hwnd] = <<52, 53>>
    /\ foreground = 52

-----------------------------------------------------------------------------
(* Claims about the settings-changed broadcast (checked under SpecReg).    *)

\* C19: the settings-changed broadcast is sent on a successful toggle, after
\* the write, at most once per toggle; the toggle's result is the write's
\* result whatever the broadcast does; a toggle that did not succeed sends
\* no broadcast.
C19_BroadcastOnSuccessOnly ==
    \A i \in ToggleCalls :
        /\ toggleLog[i].broadcasts <= 1
        /\ toggleLog[i].broadcasts = 1 => toggleLog[i].wrote
        /\ toggleLog[i].ret = (toggleLog[i].wrote /\ toggleLog[i].setOk)
        /\ toggleLog[i].ret => toggleLog[i].broadcasts = 1
        /\ ~toggleLog[i].ret => toggleLog[i].broadcasts = 0

-----------------------------------------------------------------------------
(* Claims about the restart-in-progress flag (checked under Spec).         *)

\* ExecuteToggleAction is on the stack of the main thread.
SequenceExecuting == pc \notin {"wWinMain", "GetMessage", "exited", "killed"}

\* Where the watchdog thread `id` is: "gone" before it is created and after
\* it has returned.
WatchdogPlace(id) ==
    IF \E i \in DOMAIN watchdogs : watchdogs[i].id = id
    THEN watchdogs[CHOOSE i \in DOMAIN watchdogs : watchdogs[i].id = id].at
    ELSE "gone"

WatchdogIds == 1 .. MaxClicks

Posted(q) == Cardinality({ i \in DOMAIN q : q[i] = "WM_TASKBARCREATED" })

\* A watchdog that has yet to clear the flag, or the armed timer.
ClearingPending ==
    \/ timerArmed
    \/ \E id \in WatchdogIds : WatchdogPlace(id) \in {"Sleep", "clear flag"}

FlagNeverStuck ==
    (Running /\ g_trayMode /\ g_isRestartingExplorer /\ ~SequenceExecuting)
        => ClearingPending

\* What a step of a watchdog thread or of the timer does.
ClearersAsStated ==
    /\ \A id \in WatchdogIds :
          \* it clears the flag as it passes line 106
          /\ (WatchdogPlace(id) = "clear flag" /\ WatchdogPlace(id)' # "clear flag")
                => (~g_isRestartingExplorer' /\ WatchdogPlace(id)' = "clear handle")
          \* PostMessage lies before that and is not gone through again
          /\ (WatchdogPlace(id) \notin {"gone", "Sleep"}) => WatchdogPlace(id)' # "Sleep"
          \* it clears the handle, then returns
          /\ (WatchdogPlace(id) = "clear handle" /\ WatchdogPlace(id)' # "clear handle")
                => (g_watchdogThread' = 0 /\ WatchdogPlace(id)' = "return")
          /\ (WatchdogPlace(id) # "gone" /\ WatchdogPlace(id)' = "gone")
                => (WatchdogPlace(id) = "return" /\ g_watchdogThread # id)
    \* a re-registration message is posted by a watchdog leaving its sleep,
    \* one message at a time
    /\ Posted(msgQueue') > Posted(msgQueue) =>
          /\ Posted(msgQueue') = Posted(msgQueue) + 1
          /\ \E id \in WatchdogIds :
                WatchdogPlace(id) = "Sleep" /\ WatchdogPlace(id)' = "clear flag"
    \* the timer, when it fires, is killed and clears the flag
    /\ (timerArmed /\ ~timerArmed') => ~g_isRestartingExplorer'

\* C20: in resident mode the flag g_isRestartingExplorer is never stuck:
\* whenever it is true and no toggle sequence is executing, a watchdog that
\* has yet to clear it is pending or timer 1234 is armed; each of them clears
\* the flag when it fires; a watchdog thread posts at most one
\* re-registration message and clears the watchdog handle before it exits.
\* (The steps are those of the running program: the end of the process takes
\* its threads, its timer and the flag with it.)
C20_FlagNeverStuck == []FlagNeverStuck /\ [][Running' => ClearersAsStated]_vars

\* C20 witness: the second sequence has raised the flag again after the
\* first one's watchdog had cleared it; that watchdog has exited, no second
\* one was created, and the armed timer is what is left to clear the flag.
C20_Witness ==
    /\ pc = "GetMessage" /\ g_trayMode /\ g_isRestartingExplorer
    /\ seqNo = 2 /\ wdCreated = 1
    /\ watchdogs = <<>> /\ g_watchdogThread = 0
    /\ timerArmed

====
